---- MODULE Spec2Model ----
(***************************************************************************)
(* A model of the two-stage dot renderer of invalid-attachment-            *)
(* reproduction:                                                           *)
(*   - src/src/surface.rs       GlobalSurface (the shared compositor) and  *)
(*                              HpSurface (the offscreen surface),         *)
(*   - src/src/surface_view.rs  SurfaceRenderResources (the presentation   *)
(*                              bridge: new / prepare / paint),            *)
(*   - src/src/main.rs          the standalone demo frame driver (run).    *)
(*                                                                         *)
(* Spec        is the library used by a host with one surface:             *)
(*             compositor, offscreen surface and bridge.                   *)
(* SharedSpec  is the library used by a host that creates several surfaces *)
(*             on the one compositor.                                      *)
(* DemoSpec    is the event loop of main.rs.                               *)
(* FrameSpec   is that event loop, from its start and from late in a run.  *)
(*                                                                         *)
(* Floats are written in thousandths (0.5 is 500).  A GPU object is a      *)
(* record carrying the id the device gave it; the device hands out ids     *)
(* per kind of object, counting from 1, and id 0 is "not created yet".     *)
(* The queue executes in submission order, so a submitted command buffer   *)
(* is modelled as executed at its submit.  A wgpu validation error goes    *)
(* to the default uncaptured-error handler, which panics: it is recorded   *)
(* in device.error and no operation runs after it.                         *)
(***************************************************************************)
EXTENDS Integers, Sequences, FiniteSets, TLC

VARIABLES
    \* ---- library (surface.rs, surface_view.rs) ----
    stage,            \* "global" | "surface" | "bridge": which objects exist
    global,           \* GlobalSurface
    surface,          \* HpSurface
    resources,        \* SurfaceRenderResources
    device,           \* objects created so far, per kind, and the panic flag
    queue,            \* the shared queue: every submit / write_buffer, in call order
    texture_memory,   \* pixel contents of the surface's render-target texture
    render_pass,      \* the host render pass handed to the last paint
    presented,        \* what the last paint's draw put on the host surface
    history,          \* every completed render(): the list installed and the texture it left
    last_op,          \* the operation that ran last
    peers,            \* the further HpSurfaces created on the same GlobalSurface
    \* ---- demo frame driver (main.rs) ----
    dots,             \* Vec<Dot> of run
    main_instance_buffer,
    uniforms,         \* Uniforms
    main_uniform_buffer,
    main_uniform_bind_group,
    config,           \* SurfaceConfiguration
    control_flow,
    main_created,     \* buffers and bind groups created, presses, redraws completed
    main_draw,        \* the draw issued by the last RedrawRequested
    main_event,       \* the event handled last
    main_panic,       \* run has panicked
    rnd               \* rand::thread_rng(): its seed and the dots drawn from it

libvars == <<stage, global, surface, resources, device, queue, texture_memory,
             render_pass, presented, history, last_op, peers>>
mainvars == <<dots, main_instance_buffer, uniforms, main_uniform_buffer,
              main_uniform_bind_group, config, control_flow, main_created,
              main_draw, main_event, main_panic, rnd>>
vars == <<libvars, mainvars>>

----------------------------------------------------------------------------
(* Bounds of the model. *)

\* longest dot list a host installs on an offscreen surface
MaxLen == 2
\* most render() calls (queue submissions of the offscreen surface) in a run
MaxRenders == 3
\* most dot lists a host installs on a surface in a run
MaxInstalls == 2
\* most Space key presses in a run of the demo
MaxPresses == 2
\* most RedrawRequested events in a run of the demo
MaxFrames == 3
\* most paint calls a host records into one pass
MaxPaints == 2
\* most surfaces a host creates on one compositor
MaxSurfaces == 3

----------------------------------------------------------------------------
(* Program constants. *)

\* size_of::<Dot>(): 2 + 1 + 1 + 4 f32 of 4 bytes, #[repr(C)]
SizeOfDot == 32
\* size_of::<Vertex>(): 2 f32
SizeOfVertex == 8
\* VERTICES: [Vertex; 6]
QuadVertexCount == 6
\* for i in 0..1000 of the Space handler
DotsPerPress == 1000
\* texture_size = 1024u32
TextureSize == 1024
\* min_binding_size of the uniform binding; [0.0_f32; 4] is 16 bytes
UniformSize == 16
\* size_of::<Uniforms>() of main.rs: 4 u32
SizeOfUniforms == 16
\* a u32 is kept as two 16-bit halves, [hi, lo], of value hi * 65536 + lo
U16 == 65536

\* the unused static of surface.rs
TEXTURE_FORMAT == "Bgra8UnormSrgb"
\* texture_desc.format of GlobalSurface::new
TextureDescFormat == "Rgba8UnormSrgb"
\* target formats a host may use for its pass and pass to the bridge
Formats == {"Rgba8UnormSrgb", "Bgra8UnormSrgb"}

----------------------------------------------------------------------------
(* Dots. *)

\* the one dot HpSurface::new installs
InitialDot ==
    [position |-> <<500, 500>>, radius |-> 100, hardness |-> 500,
     color |-> <<1000, 0, 0, 1000>>]

\* a second dot, for hosts that install their own lists
OtherDot ==
    [position |-> <<0, 0>>, radius |-> 100, hardness |-> 500,
     color |-> <<0, 0, 1000, 1000>>]

\* the list of n dots that alternates between the two values
AlternatingDots(n) == [i \in 1..n |-> IF i % 2 = 1 THEN InitialDot ELSE OtherDot]

\* the lists a host installs: one of each length up to n, and a second
\* list of one dot that differs from the dot of HpSurface::new
InstallLists(n) == {<<OtherDot>>} \cup {AlternatingDots(k) : k \in 0..n}

----------------------------------------------------------------------------
(* The device. *)

NoBuffer == [id |-> 0, contents |-> <<>>, size |-> 0]

\* wgpu::util::DeviceExt::create_buffer_init: a buffer holding `contents`
\* (a list of elements of elem_size bytes), as long as the contents.  (wgpu
\* pads the size to a multiple of 4 bytes; every element here is one.)
create_buffer_init(id, contents, elem_size) ==
    [id |-> id,
     contents |-> contents,
     size |-> Len(contents) * elem_size]

NoObjects ==
    [buffers |-> 0, textures |-> 0, views |-> 0, samplers |-> 0, shaders |-> 0,
     layouts |-> 0, pipelines |-> 0, bind_groups |-> 0, encoders |-> 0]

Panicked == device.error # "none"

----------------------------------------------------------------------------
(* surface.rs: GlobalSurface. *)

\* static VERTICES: two triangles covering the unit square
VERTICES == <<<<0, 0>>, <<1000, 0>>, <<1000, 1000>>,
              <<1000, 1000>>, <<0, 1000>>, <<0, 0>>>>

\* GlobalSurface::new: the quad buffer, the texture description and the
\* compositor pipeline, whose colour target takes texture_desc.format.
GlobalSurfaceNew ==
    LET texture_desc ==
            [width |-> TextureSize, height |-> TextureSize,
             format |-> TextureDescFormat,
             usage |-> {"COPY_SRC", "RENDER_ATTACHMENT", "TEXTURE_BINDING"}]
    IN  [vertex_buffer |-> create_buffer_init(1, VERTICES, SizeOfVertex),
         render_pipeline |->
            [id |-> 1,
             buffers |-> <<[array_stride |-> SizeOfVertex, step_mode |-> "Vertex"],
                           [array_stride |-> SizeOfDot, step_mode |-> "Instance"]>>,
             target_format |-> texture_desc.format,
             blend |-> [src_factor |-> "SrcAlpha", dst_factor |-> "OneMinusSrcAlpha",
                        operation |-> "Add"]],
         texture_desc |-> texture_desc]

\* what GlobalSurface::new created on the device
GlobalObjects ==
    [NoObjects EXCEPT !.buffers = 1, !.shaders = 1, !.layouts = 1, !.pipelines = 1]

----------------------------------------------------------------------------
(* surface.rs: HpSurface. *)

NoSurface ==
    [instances |-> <<>>, instance_buffer |-> NoBuffer,
     texture |-> [id |-> 0, format |-> "none", width |-> 0, height |-> 0],
     texture_view |-> [id |-> 0, texture |-> 0],
     sampler |-> [id |-> 0, mag_filter |-> "none", min_filter |-> "none",
                  address_mode |-> "none"]]

\* a texture as the device creates it: wgpu zero-initialises texture memory
ZeroPixels == [background |-> "ZERO", sprites |-> <<>>]

\* a surface texture created in the format of the unused constant
SurfaceTextureFormatStatic == TEXTURE_FORMAT

\* the format of the surface's texture: create_texture(&global.texture_desc)
SurfaceTextureFormat == global.texture_desc.format

\* the HpSurface that HpSurface::new returns: one dot, its instance buffer,
\* the texture of the compositor's texture_desc, a default view of it and a
\* sampler, each a new object of the device
NewSurface ==
    LET instances == <<InitialDot>>
    IN  [instances |-> instances,
         instance_buffer |->
            create_buffer_init(device.created.buffers + 1, instances, SizeOfDot),
         texture |-> [id |-> device.created.textures + 1,
                      format |-> SurfaceTextureFormat,
                      width |-> global.texture_desc.width,
                      height |-> global.texture_desc.height],
         texture_view |-> [id |-> device.created.views + 1,
                           texture |-> device.created.textures + 1],
         sampler |-> [id |-> device.created.samplers + 1,
                      mag_filter |-> "Linear", min_filter |-> "Nearest",
                      address_mode |-> "ClampToEdge"]]

\* the surfaces the host has created so far
SurfaceCount == IF stage = "global" THEN 0 ELSE 1 + Len(peers)

\* HpSurface::new, any number of times on the one Arc<GlobalSurface>.  The
\* first surface is the one the host goes on to render and to hand to the
\* bridge; the later ones are kept in peers, each with its own texture.
HpSurfaceNew ==
    /\ stage \in {"global", "surface", "bridge"}
    /\ ~Panicked
    /\ SurfaceCount < MaxSurfaces
    /\ IF stage = "global"
          THEN /\ surface' = NewSurface
               /\ texture_memory' = ZeroPixels
               /\ stage' = "surface"
               /\ peers' = peers
          ELSE /\ peers' = Append(peers, [surface |-> NewSurface, pixels |-> ZeroPixels])
               /\ UNCHANGED <<surface, texture_memory, stage>>
    /\ device' = [device EXCEPT !.created.buffers = @ + 1,
                                !.created.textures = @ + 1,
                                !.created.views = @ + 1,
                                !.created.samplers = @ + 1]
    /\ last_op' = "surface_new"
    /\ UNCHANGED <<global, resources, queue, render_pass, presented, history>>
    /\ UNCHANGED mainvars

\* set_instances of the specification (section 4.2): the host replaces the
\* list and uploads a fresh instance buffer.  surface.rs has no such method;
\* `instances` and `instance_buffer` are pub fields of HpSurface, so a host
\* that owns the surface does this by assignment.
SetInstances(list) ==
    /\ stage = "surface"
    /\ ~Panicked
    /\ device.installs < MaxInstalls
    /\ surface' = [surface EXCEPT
                     !.instances = list,
                     !.instance_buffer =
                        create_buffer_init(device.created.buffers + 1, list, SizeOfDot)]
    /\ device' = [device EXCEPT !.created.buffers = @ + 1, !.installs = @ + 1]
    /\ last_op' = "set_instances"
    /\ UNCHANGED <<stage, global, resources, queue, texture_memory, render_pass,
                   presented, history>>
    /\ UNCHANGED peers
    /\ UNCHANGED mainvars

\* the range 0..1 of render_pass.draw(0..6, 0..1)
RenderInstanceRange == [start |-> 0, end |-> 1]

\* a render() that loads the previous contents instead of clearing
RenderLoadOpLoad == [load |-> "Load", color |-> "GREEN"]

\* LoadOp::Clear(wgpu::Color::GREEN)
RenderLoadOp == [load |-> "Clear", color |-> "GREEN"]

NoCommands ==
    [view |-> 0, ops |-> [load |-> "none", color |-> "none"], store |-> FALSE,
     pipeline |-> 0, slot0 |-> 0, slot1 |-> 0,
     vertices |-> [start |-> 0, end |-> 0], instances |-> [start |-> 0, end |-> 0]]

\* the render pass HpSurface::render records (lines 233-252)
RenderPassCommands(s) ==
    [view |-> s.texture_view.id,
     ops |-> RenderLoadOp,
     store |-> TRUE,
     pipeline |-> global.render_pipeline.id,
     slot0 |-> global.vertex_buffer.id,
     slot1 |-> s.instance_buffer.id,
     vertices |-> [start |-> 0, end |-> QuadVertexCount],
     instances |-> RenderInstanceRange]

\* wgpu's validation of that pass: the pipeline's colour target must have the
\* attachment's format, and a draw must stay inside the bound vertex buffers
\* (size / array_stride elements each).
RenderValidation(s, cb) ==
    IF global.render_pipeline.target_format # s.texture.format
        THEN "IncompatiblePipelineTargets"
    ELSE IF cb.vertices.end > global.vertex_buffer.size \div SizeOfVertex
        THEN "VertexBeyondLimit"
    ELSE IF cb.instances.end > s.instance_buffer.size \div SizeOfDot
        THEN "InstanceBeyondLimit"
    ELSE "none"

\* the pixels a submitted pass leaves in the attachment: the load op, then
\* one sprite per instance of the draw, read from the buffer at slot 1
Execute(cb, pixels, instance_buffer) ==
    LET loaded == IF cb.ops.load = "Clear"
                      THEN [background |-> cb.ops.color, sprites |-> <<>>]
                      ELSE pixels
    IN  [loaded EXCEPT !.sprites =
            @ \o SubSeq(instance_buffer.contents,
                        cb.instances.start + 1, cb.instances.end)]

Submit(cb) == [op |-> "submit", commands |-> cb, buffer |-> 0, data |-> <<>>]

WriteBuffer(buffer, data) ==
    [op |-> "write_buffer", commands |-> NoCommands, buffer |-> buffer.id, data |-> data]

Renders == Len(SelectSeq(queue, LAMBDA e : e.op = "submit"))

\* a render() that allocates its render target anew on every call
RenderDeviceNewTarget(s) ==
    [device EXCEPT !.created.encoders = @ + 1,
                   !.created.textures = @ + 1,
                   !.created.views = @ + 1,
                   !.error = RenderValidation(s, RenderPassCommands(s))]

\* HpSurface::render, as the values it leaves: one encoder, one pass, one
\* submit.  A pass that fails validation is never submitted.
RenderDevice(s) ==
    LET err == RenderValidation(s, RenderPassCommands(s))
    IN  [device EXCEPT !.created.encoders = @ + 1, !.error = err]

\* a render() that submits its command buffer twice
RenderQueueTwice(s, q) ==
    IF RenderValidation(s, RenderPassCommands(s)) = "none"
        THEN Append(Append(q, Submit(RenderPassCommands(s))),
                    Submit(RenderPassCommands(s)))
        ELSE q

\* the queue after render(): the finished command buffer, holding the whole
\* pass, is submitted once (line 254); a pass that fails validation is not
RenderQueue(s, q) ==
    IF RenderValidation(s, RenderPassCommands(s)) = "none"
        THEN Append(q, Submit(RenderPassCommands(s)))
        ELSE q

RenderTexture(s) ==
    IF RenderValidation(s, RenderPassCommands(s)) = "none"
        THEN Execute(RenderPassCommands(s), texture_memory, s.instance_buffer)
        ELSE texture_memory

RenderHistory(s) ==
    IF RenderValidation(s, RenderPassCommands(s)) = "none"
        THEN Append(history, [instances |-> s.instances, texture |-> RenderTexture(s)])
        ELSE history

\* a render() that rebuilds the compositor pipeline on every call
RenderGlobalRebuilt ==
    [global EXCEPT !.render_pipeline.id = device.created.pipelines + 1]

\* the compositor after render(): render takes &self and only reads
\* self.global (render_pipeline at line 248, vertex_buffer at line 249)
RenderGlobal == global

\* HpSurface::render called by the host that owns the surface
Render ==
    /\ stage = "surface"
    /\ ~Panicked
    /\ Renders < MaxRenders
    /\ device' = RenderDevice(surface)
    /\ queue' = RenderQueue(surface, queue)
    /\ texture_memory' = RenderTexture(surface)
    /\ history' = RenderHistory(surface)
    /\ global' = RenderGlobal
    /\ last_op' = "render"
    /\ UNCHANGED <<stage, surface, resources, render_pass, presented>>
    /\ UNCHANGED peers
    /\ UNCHANGED mainvars

\* HpSurface::render called on one of the further surfaces: the same pass,
\* on that surface's view and instance buffer, submitted to the same queue.
\* history keeps the renders of the first surface only.
RenderPeer(i) ==
    /\ stage \in {"surface", "bridge"}
    /\ ~Panicked
    /\ i \in DOMAIN peers
    /\ Renders < MaxRenders
    /\ LET s == peers[i].surface
       IN  /\ device' = RenderDevice(s)
           /\ queue' = RenderQueue(s, queue)
           /\ peers' =
                 IF RenderValidation(s, RenderPassCommands(s)) = "none"
                    THEN [peers EXCEPT ![i].pixels =
                            Execute(RenderPassCommands(s), @, s.instance_buffer)]
                    ELSE peers
    /\ global' = RenderGlobal
    /\ last_op' = "render"
    /\ UNCHANGED <<stage, surface, resources, texture_memory, render_pass, presented,
                   history>>
    /\ UNCHANGED mainvars

----------------------------------------------------------------------------
(* surface_view.rs: SurfaceRenderResources. *)

NoResources ==
    [pipeline |-> [id |-> 0, target_format |-> "none"],
     bind_group |-> [id |-> 0, buffer |-> 0],
     texture_bind_group |-> [id |-> 0, view |-> 0, sampler |-> 0],
     uniform_buffer |-> NoBuffer]

\* [0.0_f32; 4] of new and &[0.0f32, 0.0, 0.0, 0.0] of prepare
ZeroUniform == <<0, 0, 0, 0>>

\* the host's render pass: none, open (recording) or ended
NoPass == [format |-> "none", commands |-> <<>>, ended |-> FALSE]

\* the frame the host's last submitted pass produced, and how many queue
\* entries had been queued before it
NoFrame == [texture |-> ZeroPixels, uniform |-> <<>>, painted |-> FALSE, after |-> 0]

\* SurfaceRenderResources::new: takes the surface by value and builds the
\* presentation pipeline for `format`, the uniform buffer and the two bind
\* groups.  It returns Self: no format is refused.
ResourcesNew(format) ==
    /\ stage = "surface"
    /\ ~Panicked
    /\ resources' =
         [pipeline |-> [id |-> device.created.pipelines + 1, target_format |-> format],
          bind_group |-> [id |-> device.created.bind_groups + 1,
                          buffer |-> device.created.buffers + 1],
          texture_bind_group |-> [id |-> device.created.bind_groups + 2,
                                  view |-> surface.texture_view.id,
                                  sampler |-> surface.sampler.id],
          uniform_buffer |->
             create_buffer_init(device.created.buffers + 1, ZeroUniform,
                                UniformSize \div Len(ZeroUniform))]
    /\ device' = [device EXCEPT !.created.shaders = @ + 1,
                                !.created.layouts = @ + 3,
                                !.created.pipelines = @ + 1,
                                !.created.buffers = @ + 1,
                                !.created.bind_groups = @ + 2]
    /\ stage' = "bridge"
    /\ last_op' = "resources_new"
    /\ UNCHANGED <<global, surface, queue, texture_memory, render_pass, presented,
                   history>>
    /\ UNCHANGED peers
    /\ UNCHANGED mainvars

\* a prepare that writes the uniform buffer before it renders
PrepareQueueWriteFirst ==
    RenderQueue(surface, Append(queue, WriteBuffer(resources.uniform_buffer, ZeroUniform)))

\* the queue after prepare: the surface's render() submits first, then the
\* uniform write is queued (lines 138-144)
PrepareQueue ==
    LET rendered == RenderQueue(surface, queue)
    IN  Append(rendered, WriteBuffer(resources.uniform_buffer, ZeroUniform))

\* SurfaceRenderResources::prepare.  When render() panics the write is not
\* reached.
Prepare ==
    /\ stage = "bridge"
    /\ ~Panicked
    /\ Renders < MaxRenders
    /\ device' = RenderDevice(surface)
    /\ texture_memory' = RenderTexture(surface)
    /\ history' = RenderHistory(surface)
    /\ IF RenderValidation(surface, RenderPassCommands(surface)) = "none"
          THEN /\ queue' = PrepareQueue
               /\ resources' = [resources EXCEPT !.uniform_buffer.contents = ZeroUniform]
          ELSE UNCHANGED <<queue, resources>>
    /\ global' = RenderGlobal
    /\ last_op' = "prepare"
    /\ UNCHANGED <<stage, surface, render_pass, presented>>
    /\ UNCHANGED peers
    /\ UNCHANGED mainvars

\* the four calls paint records into the host's pass (lines 151-155)
PaintCommands ==
    <<[cmd |-> "set_pipeline", index |-> 0, object |-> resources.pipeline.id, count |-> 0],
      [cmd |-> "set_bind_group", index |-> 0, object |-> resources.bind_group.id, count |-> 0],
      [cmd |-> "set_bind_group", index |-> 1, object |-> resources.texture_bind_group.id,
       count |-> 0],
      [cmd |-> "draw", index |-> 0, object |-> QuadVertexCount, count |-> 1]>>

\* a device that accepts any pipeline in any pass
PaintValidationNone(pass_format) == "none"

\* wgpu's validation of the set_pipeline paint recorded, done when the pass
\* ends: the pipeline's colour target must have the format of the pass's
\* attachment
PaintValidation(pass_format) ==
    IF resources.pipeline.target_format # pass_format
        THEN "IncompatiblePipelineTargets"
        ELSE "none"

\* the host has a pass open for recording
PassOpen == render_pass.format # "none" /\ ~render_pass.ended

\* the host has the device and the queue, whatever library objects exist
HostRunning == stage \in {"global", "surface", "bridge"} /\ ~Panicked

\* the host begins a render pass on an attachment of format pass_format.
\* It may do so before the surface or the bridge exists: paint only needs
\* the bridge to outlive the pass from the call on.
BeginPass(pass_format) ==
    /\ HostRunning
    /\ render_pass = NoPass
    /\ render_pass' = [format |-> pass_format, commands |-> <<>>, ended |-> FALSE]
    /\ UNCHANGED <<stage, global, surface, resources, device, queue, texture_memory,
                   presented, history, last_op>>
    /\ UNCHANGED peers
    /\ UNCHANGED mainvars

\* a paint that is refused until prepare has run
PaintEnabledAfterPrepare ==
    stage = "bridge" /\ ~Panicked /\ last_op # "resources_new"

\* when paint can be called: on any bridge, prepared or not (the body has no
\* guard and no early return)
PaintEnabled ==
    stage = "bridge" /\ ~Panicked

\* a paint that builds a bind group for each call
PaintDeviceNewBindGroup ==
    [device EXCEPT !.created.bind_groups = @ + 1]

\* the device after paint: nothing is created and nothing is reported
PaintDevice == device

\* SurfaceRenderResources::paint: the four calls are recorded into the
\* host's open pass and paint returns.  Nothing is validated, submitted or
\* drawn until the host ends and submits the pass.
Paint ==
    /\ PaintEnabled
    /\ PassOpen
    /\ Len(render_pass.commands) < MaxPaints * Len(PaintCommands)
    /\ render_pass' = [render_pass EXCEPT !.commands = @ \o PaintCommands]
    /\ device' = PaintDevice
    /\ last_op' = "paint"
    /\ UNCHANGED <<stage, global, surface, resources, queue, texture_memory,
                   presented, history>>
    /\ UNCHANGED peers
    /\ UNCHANGED mainvars

\* the host ends its pass: wgpu validates what was recorded, and a pipeline
\* of the wrong target format is reported now, through the default
\* uncaptured-error handler
EndPass ==
    /\ HostRunning
    /\ PassOpen
    /\ LET err == IF render_pass.commands = <<>>
                      THEN "none"
                      ELSE PaintValidation(render_pass.format)
       IN  /\ device' = [device EXCEPT !.error = err]
           /\ render_pass' = IF err = "none"
                                THEN [render_pass EXCEPT !.ended = TRUE]
                                ELSE NoPass
    /\ UNCHANGED <<stage, global, surface, resources, queue, texture_memory,
                   presented, history, last_op>>
    /\ UNCHANGED peers
    /\ UNCHANGED mainvars

\* the host submits its ended pass: the queue runs it after everything
\* queued before, so paint's draw samples the texture and reads the uniform
\* buffer as they are now.  A pass paint did not record into shows nothing
\* of the bridge.
SubmitPass ==
    /\ HostRunning
    /\ render_pass.ended
    /\ presented' =
         IF render_pass.commands # <<>>
            THEN [texture |-> texture_memory,
                  uniform |-> resources.uniform_buffer.contents,
                  painted |-> TRUE,
                  after |-> Len(queue)]
            ELSE [NoFrame EXCEPT !.after = Len(queue)]
    /\ render_pass' = NoPass
    /\ UNCHANGED <<stage, global, surface, resources, device, queue, texture_memory,
                   history, last_op>>
    /\ UNCHANGED peers
    /\ UNCHANGED mainvars

----------------------------------------------------------------------------
(* main.rs: the demo frame driver. *)

\* a u32 plus one: the sum, and whether it overflowed
U32Inc(x) ==
    IF x.lo + 1 < U16 THEN [value |-> [hi |-> x.hi, lo |-> x.lo + 1], overflow |-> FALSE]
    ELSE IF x.hi + 1 < U16 THEN [value |-> [hi |-> x.hi + 1, lo |-> 0], overflow |-> FALSE]
    ELSE [value |-> [hi |-> 0, lo |-> 0], overflow |-> TRUE]

\* usize as u32 of a length the model can reach (below 2^31)
AsU32(n) == [hi |-> ((n \div U16) % U16), lo |-> (n % U16)]

\* seeds the operating system may give rand::thread_rng() (line 223)
RndSeeds == {1, 2}

\* window sizes the host reports
WindowSizes == {[width |-> 800, height |-> 600], [width |-> 1024, height |-> 768]}

\* key codes the host reports: input.virtual_keycode
KeyCodes == {"Space", "Escape", "None"}

\* the i-th Dot drawn from the stream of a seed (lines 315-320): position
\* in -1.0..1.0, radius in 0.01..0.1, colour channels in 0.0..1.0, hardness
\* in 0.0..0.1
RandomDot(seed, i) ==
    [position |-> <<((seed * 7 + i * 13) % 2000) - 1000,
                    ((seed * 11 + i * 17) % 2000) - 1000>>,
     radius |-> 10 + ((seed * 3 + i) % 90),
     hardness |-> (seed * 5 + i) % 100,
     color |-> <<(seed + i) % 1000, (seed * 2 + i) % 1000, (seed * 3 + i) % 1000,
                 (seed * 4 + i) % 1000>>]

\* the dots one Space press pushes: the next DotsPerPress of the stream,
\* which continues from press to press
Batch(r) == [i \in 1..DotsPerPress |-> RandomDot(r.seed, r.drawn + i)]

InitialUniforms ==
    [frame |-> [hi |-> 0, lo |-> 0], _padding1 |-> 0, _padding2 |-> 0, _padding3 |-> 0]

NoDraw ==
    [pipeline_format |-> "none", slot0 |-> 0, slot1 |-> 0, bind_group |-> 0,
     vertices |-> [start |-> 0, end |-> 0],
     instances |-> [start |-> [hi |-> 0, lo |-> 0], end |-> [hi |-> 0, lo |-> 0]]]

\* main.rs is not running
MainIdle ==
    /\ dots = <<>>
    /\ main_instance_buffer = NoBuffer
    /\ uniforms = InitialUniforms
    /\ main_uniform_buffer = NoBuffer
    /\ main_uniform_bind_group = [id |-> 0, buffer |-> 0]
    /\ config = [width |-> 0, height |-> 0, format |-> "none"]
    /\ control_flow = "Poll"
    /\ main_created = [buffers |-> 0, bind_groups |-> 0, presses |-> 0, frames |-> 0,
                       redraws_before |-> [hi |-> 0, lo |-> 0]]
    /\ main_draw = NoDraw
    /\ main_event = "none"
    /\ main_panic = FALSE
    /\ rnd = [seed |-> 0, drawn |-> 0]

\* the library is not in use
LibIdle ==
    /\ stage = "none"
    /\ global = GlobalSurfaceNew
    /\ surface = NoSurface
    /\ resources = NoResources
    /\ device = [created |-> NoObjects, installs |-> 0, error |-> "none"]
    /\ queue = <<>>
    /\ texture_memory = ZeroPixels
    /\ render_pass = NoPass
    /\ presented = NoFrame
    /\ history = <<>>
    /\ last_op = "none"
    /\ peers = <<>>

\* run, up to event_loop.run (lines 62-223): no dots, frame 0, the quad
\* buffer (1), the instance buffer (2), the uniform buffer (3) and its bind
\* group, the pipeline for the swapchain format, the configured surface
MainInit ==
    /\ dots = <<>>
    /\ uniforms = InitialUniforms
    /\ main_instance_buffer = create_buffer_init(2, <<>>, SizeOfDot)
    /\ main_uniform_buffer = create_buffer_init(3, <<InitialUniforms>>, SizeOfUniforms)
    /\ main_uniform_bind_group = [id |-> 1, buffer |-> 3]
    /\ \E size \in WindowSizes, swapchain_format \in Formats :
          config = [width |-> size.width, height |-> size.height,
                    format |-> swapchain_format]
    /\ control_flow = "Poll"
    /\ main_created = [buffers |-> 3, bind_groups |-> 1, presses |-> 0, frames |-> 0,
                       redraws_before |-> [hi |-> 0, lo |-> 0]]
    /\ main_draw = NoDraw
    /\ main_event = "none"
    /\ main_panic = FALSE
    /\ \E seed \in RndSeeds : rnd = [seed |-> seed, drawn |-> 0]

\* the event loop delivers events until control_flow is Exit (which winit
\* keeps once set) or the closure has panicked
Running == control_flow # "Exit" /\ ~main_panic

\* WindowEvent::Resized (lines 234-244)
Resized(size) ==
    /\ Running
    /\ control_flow' = "Wait"
    /\ config' = [config EXCEPT !.width = size.width, !.height = size.height]
    /\ main_event' = "Resized"
    /\ UNCHANGED <<dots, main_instance_buffer, uniforms, main_uniform_buffer,
                   main_uniform_bind_group, main_created, main_draw, main_panic, rnd>>
    /\ UNCHANGED libvars

\* a counter that stays at u32::MAX instead of overflowing
FrameIncrementSaturating(overflow_checks) ==
    LET sum == U32Inc(uniforms.frame)
    IN  IF sum.overflow
           THEN [frame |-> uniforms.frame, panic |-> FALSE]
           ELSE [frame |-> sum.value, panic |-> FALSE]

\* uniforms.frame += 1: an overflow panics in a build with overflow checks
\* and wraps in one without
FrameIncrement(overflow_checks) ==
    LET sum == U32Inc(uniforms.frame)
    IN  IF sum.overflow /\ overflow_checks
           THEN [frame |-> uniforms.frame, panic |-> TRUE]
           ELSE [frame |-> sum.value, panic |-> FALSE]

\* the draw of the redraw (lines 288-294)
MainDraw(bind_group) ==
    [pipeline_format |-> config.format,
     slot0 |-> 1,
     slot1 |-> main_instance_buffer.id,
     bind_group |-> bind_group.id,
     vertices |-> [start |-> 0, end |-> QuadVertexCount],
     instances |-> [start |-> AsU32(0), end |-> AsU32(Len(dots))]]

\* Event::RedrawRequested (lines 245-301).  The counter is incremented and
\* the uniform buffer and bind group are replaced first; then
\* get_current_texture() either gives the frame to draw into or fails, and
\* .expect panics before any pass is recorded.
RedrawRequested ==
    /\ Running
    /\ main_created.frames < MaxFrames
    /\ control_flow' = "Wait"
    /\ main_event' = "RedrawRequested"
    /\ \E overflow_checks \in BOOLEAN, acquired \in BOOLEAN :
         LET inc == FrameIncrement(overflow_checks)
             new_uniforms == [uniforms EXCEPT !.frame = inc.frame]
             buffer == create_buffer_init(main_created.buffers + 1, <<new_uniforms>>,
                                          SizeOfUniforms)
             bind_group == [id |-> main_created.bind_groups + 1, buffer |-> buffer.id]
         IN  IF inc.panic
                THEN /\ main_panic' = TRUE
                     /\ UNCHANGED <<uniforms, main_uniform_buffer, main_uniform_bind_group,
                                    main_created, main_draw>>
                ELSE /\ uniforms' = new_uniforms
                     /\ main_uniform_buffer' = buffer
                     /\ main_uniform_bind_group' = bind_group
                     /\ IF acquired
                           THEN /\ main_created' =
                                     [main_created EXCEPT !.buffers = @ + 1,
                                                          !.bind_groups = @ + 1,
                                                          !.frames = @ + 1]
                                /\ main_draw' = MainDraw(bind_group)
                                /\ main_panic' = FALSE
                           ELSE /\ main_created' =
                                     [main_created EXCEPT !.buffers = @ + 1,
                                                          !.bind_groups = @ + 1]
                                /\ main_draw' = main_draw
                                /\ main_panic' = TRUE
    /\ UNCHANGED <<dots, main_instance_buffer, config, rnd>>
    /\ UNCHANGED libvars

\* WindowEvent::CloseRequested (lines 302-305)
CloseRequested ==
    /\ Running
    /\ control_flow' = "Exit"
    /\ main_event' = "CloseRequested"
    /\ UNCHANGED <<dots, main_instance_buffer, uniforms, main_uniform_buffer,
                   main_uniform_bind_group, config, main_created, main_draw, main_panic,
                   rnd>>
    /\ UNCHANGED libvars

\* a Space handler that keeps the instance buffer it had
SpaceInstanceBufferKept(new_dots) == main_instance_buffer

\* the instance buffer the Space handler leaves for the grown list
\* (lines 322-326)
SpaceInstanceBuffer(new_dots) ==
    create_buffer_init(main_created.buffers + 1, new_dots, SizeOfDot)

\* WindowEvent::KeyboardInput (lines 307-333): Space pushes the next 1000
\* dots of the random stream and re-creates the instance buffer from the
\* whole list; any other key, or no key code, does nothing
KeyboardInput(keycode) ==
    /\ Running
    /\ control_flow' = "Wait"
    /\ main_event' = "KeyboardInput"
    /\ IF keycode = "Space"
          THEN /\ main_created.presses < MaxPresses
               /\ dots' = dots \o Batch(rnd)
               /\ rnd' = [rnd EXCEPT !.drawn = @ + DotsPerPress]
               /\ main_instance_buffer' = SpaceInstanceBuffer(dots')
               /\ main_created' = [main_created EXCEPT !.buffers = @ + 1,
                                                       !.presses = @ + 1]
          ELSE UNCHANGED <<dots, main_instance_buffer, main_created, rnd>>
    /\ UNCHANGED <<uniforms, main_uniform_buffer, main_uniform_bind_group, config,
                   main_draw, main_panic>>
    /\ UNCHANGED libvars

\* every other event (the `_ => {}` arm)
OtherEvent ==
    /\ Running
    /\ control_flow' = "Wait"
    /\ main_event' = "Other"
    /\ UNCHANGED <<dots, main_instance_buffer, uniforms, main_uniform_buffer,
                   main_uniform_bind_group, config, main_created, main_draw, main_panic,
                   rnd>>
    /\ UNCHANGED libvars

DemoInit == MainInit /\ LibIdle

DemoNext ==
    \/ \E size \in WindowSizes : Resized(size)
    \/ RedrawRequested
    \/ CloseRequested
    \/ \E keycode \in KeyCodes : KeyboardInput(keycode)
    \/ OtherEvent

DemoSpec == DemoInit /\ [][DemoNext]_vars

\* u32::MAX - 1, the counter two redraws before its increment overflows
LateFrame == [hi |-> U16 - 1, lo |-> U16 - 2]

\* the event loop after LateFrame redraws and no key press: the handler of
\* the last redraw has left its uniform buffer, bind group and draw, and
\* every earlier uniform buffer and bind group has been dropped.  Objects
\* are numbered from the ones alive in this state.
MainLate ==
    /\ dots = <<>>
    /\ uniforms = [InitialUniforms EXCEPT !.frame = LateFrame]
    /\ main_instance_buffer = create_buffer_init(2, <<>>, SizeOfDot)
    /\ main_uniform_buffer = create_buffer_init(3, <<uniforms>>, SizeOfUniforms)
    /\ main_uniform_bind_group = [id |-> 1, buffer |-> 3]
    /\ \E size \in WindowSizes, swapchain_format \in Formats :
          config = [width |-> size.width, height |-> size.height,
                    format |-> swapchain_format]
    /\ control_flow = "Wait"
    /\ main_created = [buffers |-> 3, bind_groups |-> 1, presses |-> 0, frames |-> 0,
                       redraws_before |-> LateFrame]
    /\ main_draw = MainDraw(main_uniform_bind_group)
    /\ main_event = "RedrawRequested"
    /\ main_panic = FALSE
    /\ \E seed \in RndSeeds : rnd = [seed |-> seed, drawn |-> 0]

\* the frame driver from its start and from a late point of a long run
FrameInit == (MainInit \/ MainLate) /\ LibIdle

FrameSpec == FrameInit /\ [][DemoNext]_vars

----------------------------------------------------------------------------
(* The library's specification. *)

\* the state after GlobalSurface::new
Init ==
    /\ stage = "global"
    /\ global = GlobalSurfaceNew
    /\ surface = NoSurface
    /\ resources = NoResources
    /\ device = [created |-> GlobalObjects, installs |-> 0, error |-> "none"]
    /\ queue = <<>>
    /\ texture_memory = ZeroPixels
    /\ render_pass = NoPass
    /\ presented = NoFrame
    /\ history = <<>>
    /\ last_op = "global_new"
    /\ peers = <<>>
    /\ MainIdle

\* a host that creates one surface, installs lists on it, renders it and
\* hands it to the bridge
Next ==
    \/ (stage = "global" /\ HpSurfaceNew)
    \/ \E list \in InstallLists(MaxLen) : SetInstances(list)
    \/ Render
    \/ \E format \in Formats : ResourcesNew(format)
    \/ Prepare
    \/ \E pass_format \in Formats : BeginPass(pass_format)
    \/ Paint
    \/ EndPass
    \/ SubmitPass

Spec == Init /\ [][Next]_vars

\* a host that creates several surfaces on the one compositor, renders each
\* of them, and hands the first to the bridge
SharedNext ==
    \/ HpSurfaceNew
    \/ Render
    \/ \E i \in 1..(MaxSurfaces - 1) : RenderPeer(i)
    \/ \E format \in Formats : ResourcesNew(format)
    \/ Prepare
    \/ \E pass_format \in Formats : BeginPass(pass_format)
    \/ Paint
    \/ EndPass
    \/ SubmitPass

SharedSpec == Init /\ [][SharedNext]_vars

----------------------------------------------------------------------------
(* Helpers of the properties. *)

\* the bridge's state in the state machine of the specification
\* (Constructed -> {Prepared <-> Painted}), read off the last operation
Phase ==
    CASE last_op = "resources_new" -> "Constructed"
      [] last_op = "prepare" -> "Prepared"
      [] last_op = "paint" -> "Painted"
      [] OTHER -> "None"

\* uniform writes queued so far: one per completed prepare
Prepares == Len(SelectSeq(queue, LAMBDA e : e.op = "write_buffer"))

\* the last submitted command buffer
LastSubmit ==
    LET submits == SelectSeq(queue, LAMBDA e : e.op = "submit")
    IN  IF submits = <<>> THEN NoCommands ELSE submits[Len(submits)].commands

\* a texture cleared to the background colour, with no sprite in it
Background == [background |-> "GREEN", sprites |-> <<>>]

\* the command buffers among the first n queue entries
RendersAt(n) == Len(SelectSeq(SubSeq(queue, 1, n), LAMBDA e : e.op = "submit"))
\* the uniform writes among the first n queue entries
PreparesAt(n) == Len(SelectSeq(SubSeq(queue, 1, n), LAMBDA e : e.op = "write_buffer"))

\* the texture as the k-th completed render() left it
TextureAfter(k) == IF k = 0 THEN ZeroPixels ELSE history[k].texture

----------------------------------------------------------------------------
(* Properties. *)

\* C1: for every dot list of length N >= 0 installed on an offscreen
\* surface, the instance buffer is N * size_of(Dot) bytes long and the next
\* render() issues a draw of instance range 0..N.
C1_RenderDrawsInstalledList ==
    last_op \in {"render", "prepare"} =>
        /\ surface.instance_buffer.size = Len(surface.instances) * SizeOfDot
        /\ RenderPassCommands(surface).instances =
              [start |-> 0, end |-> Len(surface.instances)]

\* C2: in the demo driver a stale instance buffer is never drawn: after any
\* interleaving of Space presses and redraws the instance buffer holds
\* exactly the current dot list, and each draw binds that buffer at slot 1
\* with an instance count equal to the list's length.
C2_NoStaleInstanceBuffer ==
    /\ main_instance_buffer.contents = dots
    /\ main_instance_buffer.size = Len(dots) * SizeOfDot
    /\ (main_event = "RedrawRequested" /\ ~main_panic) =>
          /\ main_draw.slot1 = main_instance_buffer.id
          /\ main_draw.instances = [start |-> AsU32(0), end |-> AsU32(Len(dots))]

\* C2's case: a redraw before the second Space press and another after it
C2_Witness ==
    /\ main_event = "RedrawRequested"
    /\ ~main_panic
    /\ Len(dots) = 2 * DotsPerPress
    /\ main_created.frames >= 2
    /\ main_instance_buffer.id = 6
    /\ main_draw.slot1 = 6
    /\ SubSeq(dots, DotsPerPress + 1, 2 * DotsPerPress) # SubSeq(dots, 1, DotsPerPress)

\* C3: when the surface's dot list is empty, render() still clears the
\* texture to the background colour and issues a draw with zero instances,
\* leaving the texture entirely background-coloured.
C3_EmptyListRendersBackground ==
    (last_op \in {"render", "prepare"} /\ Len(surface.instances) = 0) =>
        /\ ~Panicked
        /\ LastSubmit.instances = [start |-> 0, end |-> 0]
        /\ texture_memory = Background

\* C4: every prepare submits the offscreen render before it writes the
\* uniform buffer, and a paint that follows a prepare samples the texture
\* that prepare's render left.
C4_PrepareSubmitsBeforeWriteAndPaint ==
    /\ \A i \in DOMAIN queue :
          queue[i].op = "write_buffer" =>
             /\ i > 1
             /\ queue[i - 1].op = "submit"
             /\ queue[i - 1].commands.view = resources.texture_bind_group.view
             /\ queue[i].buffer = resources.uniform_buffer.id
    /\ (presented.painted /\ PreparesAt(presented.after) > 0) =>
          /\ queue[presented.after].op = "write_buffer"
          /\ queue[presented.after - 1].op = "submit"
          /\ presented.texture =
                Execute(queue[presented.after - 1].commands, ZeroPixels,
                        surface.instance_buffer)
          /\ presented.texture = TextureAfter(RendersAt(presented.after))

\* C4's case: prepare, then a paint into a pass that the host ends and
\* submits
C4_Witness ==
    /\ last_op = "paint"
    /\ ~Panicked
    /\ Prepares = 2
    /\ presented.painted
    /\ presented.after = Len(queue)
    /\ presented.texture.background = "GREEN"

\* C5, the states: paint is enabled on every bridge, prepared or not,
\* whenever the host has a pass open; it records the same four commands
\* each time; a paint whose pass is submitted before any prepare draws the
\* texture and the uniform values of the construction.
C5_PaintAlwaysEnabled ==
    /\ (stage = "bridge" /\ ~Panicked /\ PassOpen
           /\ Len(render_pass.commands) < MaxPaints * Len(PaintCommands)) =>
          ENABLED Paint
    /\ /\ Len(render_pass.commands) % Len(PaintCommands) = 0
       /\ \A i \in DOMAIN render_pass.commands :
             render_pass.commands[i] = PaintCommands[((i - 1) % Len(PaintCommands)) + 1]
    /\ (presented.painted /\ PreparesAt(presented.after) = 0) =>
          /\ presented.texture = TextureAfter(RendersAt(presented.after))
          /\ presented.uniform = ZeroUniform

\* C5, the steps: from Constructed, Prepared or Painted the bridge moves
\* only to Prepared or Painted (the host's steps on its pass leave it where
\* it is)
C5_PhaseStep ==
    Phase # "None" => Phase' \in {Phase, "Prepared", "Painted"}

\* C5: the bridge follows Constructed -> {Prepared <-> Painted} and paint is
\* enabled in every state, also before any prepare.
C5_StateMachine == [][C5_PhaseStep]_vars /\ []C5_PaintAlwaysEnabled

\* C5's case: a paint on a freshly constructed bridge, its pass ended and
\* submitted without error
C5_Witness ==
    /\ last_op = "paint"
    /\ ~Panicked
    /\ Prepares = 0
    /\ presented.painted
    /\ presented.uniform = ZeroUniform
    /\ render_pass = NoPass

\* C6: a prepare that directly follows a prepare leaves the render-target
\* texture and the uniform buffer as the first left them.
C6_PrepareIdempotent ==
    [][(last_op = "prepare" /\ last_op' = "prepare" /\ queue' # queue) =>
          /\ texture_memory' = texture_memory
          /\ resources'.uniform_buffer = resources.uniform_buffer]_vars

\* C6's case: two prepares in a row, no paint in between
C6_Witness ==
    /\ last_op = "prepare"
    /\ ~Panicked
    /\ Prepares = 2
    /\ render_pass = NoPass
    /\ Len(texture_memory.sprites) = 1

\* C7: renders of the same dot list leave the same texture, whatever was
\* installed and rendered in between: nothing of list B survives into a
\* later render of list A.
C7_RoundTrip ==
    /\ \A i, j \in DOMAIN history :
          history[i].instances = history[j].instances =>
             history[i].texture = history[j].texture
    /\ last_op = "render" /\ ~Panicked =>
          /\ LastSubmit.slot1 = surface.instance_buffer.id
          /\ surface.instance_buffer.contents = surface.instances
          /\ texture_memory =
                Execute(LastSubmit, ZeroPixels, surface.instance_buffer)

\* C7's case: list A rendered, a different list B rendered, A rendered again
C7_Witness ==
    /\ Len(history) = 3
    /\ history[1].instances = history[3].instances
    /\ history[2].instances # history[1].instances
    /\ history[2].texture # history[1].texture

\* C8: paint only records into the host's pass: it creates no GPU object,
\* submits nothing and leaves the surface, its texture, the buffers and the
\* bind groups as they were; and no other bridge operation writes to the
\* host's pass.
C8_PaintOnlyRecords ==
    [][/\ Len(render_pass'.commands) > Len(render_pass.commands) =>
            /\ last_op' = "paint"
            /\ render_pass' = [render_pass EXCEPT !.commands = @ \o PaintCommands]
            /\ device' = device
            /\ queue' = queue
            /\ texture_memory' = texture_memory
            /\ surface' = surface
            /\ resources' = resources
            /\ global' = global
            /\ presented' = presented
       /\ (queue' # queue \/ device'.created # device.created) =>
            /\ render_pass' = render_pass
            /\ presented' = presented]_vars

\* C8's case: a paint, after a prepare, into a pass that is still open
C8_Witness ==
    /\ last_op = "paint"
    /\ Prepares > 0
    /\ PassOpen
    /\ render_pass.commands = PaintCommands
    /\ LastSubmit.view = resources.texture_bind_group.view

\* C9 as claimed: a bridge whose target format differs from the host pass
\* is refused by the constructor, so paint never records into a pass of
\* another format and no pass fails on the format.
C9_MismatchRefusedAtConstruction ==
    /\ render_pass.commands # <<>> =>
          resources.pipeline.target_format = render_pass.format
    /\ stage = "bridge" => device.error # "IncompatiblePipelineTargets"

\* C9 as amended, the states: the constructor accepts every target format;
\* a pass that paint recorded into ends without error only if its format is
\* the bridge's target format
C9_MismatchNotRefused ==
    /\ (stage = "surface" /\ ~Panicked) => \A f \in Formats : ENABLED ResourcesNew(f)
    /\ last_op = "resources_new" => (stage = "bridge" /\ ~Panicked)
    /\ (render_pass.ended /\ render_pass.commands # <<>>) =>
          resources.pipeline.target_format = render_pass.format
    /\ (stage = "bridge" /\ device.error = "IncompatiblePipelineTargets") =>
          render_pass = NoPass

\* C9 as amended, the steps: the mismatch is reported when the host ends a
\* pass that paint recorded into, and not by paint
C9_MismatchStep ==
    /\ (device'.error = "IncompatiblePipelineTargets" /\ device.error = "none") =>
          /\ PassOpen
          /\ render_pass.commands # <<>>
          /\ resources.pipeline.target_format # render_pass.format
          /\ render_pass' = NoPass
          /\ last_op' = last_op
    /\ (PassOpen /\ render_pass' = [render_pass EXCEPT !.ended = TRUE]) =>
          (render_pass.commands = <<>>
             \/ resources.pipeline.target_format = render_pass.format)

\* C9 as amended: paint into a pass of format F succeeds only if the bridge
\* was constructed with target_format = F; the constructor accepts every
\* target format, and a mismatch is reported when the host ends the pass
\* paint recorded into.
C9_MismatchReportedAtPassEnd == [][C9_MismatchStep]_vars /\ []C9_MismatchNotRefused

\* C9's case: a bridge built for one format, painted into a pass of
\* another, prepared, and the pass then ended
C9_Witness ==
    /\ last_op = "prepare"
    /\ Prepares = 1
    /\ resources.pipeline.target_format = "Bgra8UnormSrgb"
    /\ render_pass = NoPass
    /\ ~presented.painted
    /\ device.error = "IncompatiblePipelineTargets"

\* C10: the render target is allocated once: across prepare, render and
\* paint the surface's texture and view are the ones HpSurface::new
\* created, and the bridge's texture bind group refers to that view and to
\* the surface's sampler.
C10_TargetAllocatedOnce ==
    /\ stage \in {"surface", "bridge"} =>
          /\ device.created.textures = 1
          /\ device.created.views = 1
          /\ device.created.samplers = 1
          /\ surface.texture.id = 1
          /\ surface.texture_view = [id |-> 1, texture |-> 1]
          /\ surface.sampler.id = 1
          /\ \A i \in DOMAIN queue :
                queue[i].op = "submit" => queue[i].commands.view = surface.texture_view.id
    /\ stage = "bridge" =>
          /\ resources.texture_bind_group.view = surface.texture_view.id
          /\ resources.texture_bind_group.sampler = surface.sampler.id

\* C10's case: renders before the bridge, a prepare and a paint after
C10_Witness ==
    /\ last_op = "paint"
    /\ ~Panicked
    /\ Renders = 3
    /\ Prepares = 1

\* every surface the host has created on the compositor
AllSurfaces ==
    IF stage = "global"
        THEN {}
        ELSE {surface} \cup {peers[i].surface : i \in DOMAIN peers}

\* C11: the shared compositor is read-only after construction: whatever
\* HpSurface::new, render, prepare and paint have done, on any of the
\* surfaces created on it, its quad vertex buffer, render pipeline and
\* texture description are the ones GlobalSurface::new built; every
\* surface observes that same pipeline state, and every submitted pass, of
\* whichever surface, binds that pipeline and that quad buffer.
C11_CompositorReadOnly ==
    /\ global = GlobalSurfaceNew
    /\ device.created.pipelines =
          GlobalObjects.pipelines + (IF stage = "bridge" THEN 1 ELSE 0)
    /\ \A s \in AllSurfaces :
          /\ RenderPassCommands(s).pipeline = GlobalSurfaceNew.render_pipeline.id
          /\ RenderPassCommands(s).slot0 = GlobalSurfaceNew.vertex_buffer.id
          /\ s.texture.format = GlobalSurfaceNew.texture_desc.format
          /\ s.texture.width = GlobalSurfaceNew.texture_desc.width
          /\ s.texture.height = GlobalSurfaceNew.texture_desc.height
    /\ \A s, t \in AllSurfaces :
          s.texture.id # t.texture.id =>
             /\ s.texture_view.id # t.texture_view.id
             /\ s.instance_buffer.id # t.instance_buffer.id
    /\ \A i \in DOMAIN queue :
          queue[i].op = "submit" =>
             /\ queue[i].commands.pipeline = GlobalSurfaceNew.render_pipeline.id
             /\ queue[i].commands.slot0 = GlobalSurfaceNew.vertex_buffer.id
             /\ \E s \in AllSurfaces : queue[i].commands.view = s.texture_view.id

\* C11's case: three surfaces share the compositor; the first was wrapped,
\* prepared and painted, the other two were created later (one after the
\* bridge) and each rendered
C11_Witness ==
    /\ Len(peers) = 2
    /\ stage = "bridge"
    /\ presented.painted
    /\ Prepares = 1
    /\ Renders = 3
    /\ \A s \in AllSurfaces :
          \E i \in DOMAIN queue :
             queue[i].op = "submit" /\ queue[i].commands.view = s.texture_view.id
    /\ \A i \in DOMAIN peers : peers[i].pixels.background = "GREEN"

\* the command buffers submitted so far, in queue order
Submits == SelectSeq(queue, LAMBDA e : e.op = "submit")

\* a command buffer that holds the whole pass of render(): the clear, the
\* pipeline, both vertex buffers and the draw
WholePass(cb) ==
    /\ cb.view = surface.texture_view.id
    /\ cb.ops = [load |-> "Clear", color |-> "GREEN"]
    /\ cb.store
    /\ cb.pipeline = global.render_pipeline.id
    /\ cb.slot0 = global.vertex_buffer.id
    /\ cb.slot1 # 0
    /\ cb.vertices = [start |-> 0, end |-> QuadVertexCount]
    /\ cb.instances.end > cb.instances.start

\* C12, the states: every submitted command buffer holds the whole pass,
\* and there is one submission per render() that passed validation (one
\* encoder per render(), none submitted for a rejected pass)
C12_SubmitsAreWhole ==
    /\ \A i \in DOMAIN Submits : WholePass(Submits[i].commands)
    /\ device.created.encoders =
          Len(Submits) + (IF device.error \in {"InstanceBeyondLimit", "VertexBeyondLimit"}
                             THEN 1 ELSE 0)
    /\ Len(Submits) = Len(history)

\* C12, the steps: a render() (alone or inside prepare) appends exactly one
\* command buffer, the pass of the current surface, after those already
\* submitted, or nothing when the pass is rejected; no other step submits
C12_SubmitStep ==
    IF device'.created.encoders # device.created.encoders
        THEN /\ last_op' \in {"render", "prepare"}
             /\ device'.created.encoders = device.created.encoders + 1
             /\ \/ /\ device'.error = "none"
                   /\ SelectSeq(queue', LAMBDA e : e.op = "submit") =
                         Append(Submits, Submit(RenderPassCommands(surface)))
                \/ /\ device'.error # "none"
                   /\ queue' = queue
        ELSE SelectSeq(queue', LAMBDA e : e.op = "submit") = Submits

\* C12: each render() submits exactly one command buffer, whole, once, and
\* consecutive render() calls submit in call order.
C12_OneWholeSubmitPerRender == [][C12_SubmitStep]_vars /\ []C12_SubmitsAreWhole

\* C12's case: three render() calls, three submissions in call order, the
\* second for another instance buffer than the first
C12_Witness ==
    /\ Len(Submits) = 3
    /\ device.created.encoders = 3
    /\ Submits[1].commands.slot1 < Submits[2].commands.slot1
    /\ Submits[2].commands.slot1 < Submits[3].commands.slot1

\* C13, the states: for every surface created from the compositor, the
\* pipeline's colour-target format equals the format of the texture
\* render() attaches, both the texture_desc format and not the unused
\* TEXTURE_FORMAT
C13_FormatsAgree ==
    stage \in {"surface", "bridge"} =>
        /\ global.render_pipeline.target_format = surface.texture.format
        /\ surface.texture.format = TextureDescFormat
        /\ surface.texture.format # TEXTURE_FORMAT
        /\ surface.texture_view.texture = surface.texture.id
        /\ stage = "surface" => device.error # "IncompatiblePipelineTargets"
        /\ \A i \in DOMAIN Submits :
              /\ Submits[i].commands.view = surface.texture_view.id
              /\ Submits[i].commands.pipeline = global.render_pipeline.id

\* C13, the steps: no render(), alone or inside prepare, fails the check
\* of the pipeline's target format against the attachment
C13_RenderStep ==
    device'.created.encoders # device.created.encoders =>
        /\ RenderValidation(surface, RenderPassCommands(surface)) #
              "IncompatiblePipelineTargets"
        /\ device'.error # "IncompatiblePipelineTargets"

\* C13: the pipeline's colour-target format equals the format of the
\* attached texture for every surface, independently of TEXTURE_FORMAT, so
\* no render() begins a pass whose attachment format differs from the
\* pipeline's target format.
C13_AttachmentFormatCompatible == [][C13_RenderStep]_vars /\ []C13_FormatsAgree

\* C13's case: render() has begun and submitted passes on the surface's
\* texture, alone and inside prepare
C13_Witness ==
    /\ last_op = "prepare"
    /\ device.error = "none"
    /\ Len(Submits) = 2
    /\ Len(history) = 2
    /\ surface.texture.format = "Rgba8UnormSrgb"
    /\ global.render_pipeline.target_format = "Rgba8UnormSrgb"

\* a count plus n, as 16-bit halves whose high half is unbounded
CountAdd(c, n) ==
    [hi |-> c.hi + ((c.lo + n) \div U16), lo |-> (c.lo + n) % U16]

\* the number of RedrawRequested events handled so far: the handlers that
\* ran to their end
RedrawsHandled == CountAdd(main_created.redraws_before, main_created.frames)

\* a count as u32: its low 32 bits
CountAsU32(c) == [hi |-> c.hi % U16, lo |-> c.lo]

\* C14, the states: while the driver runs the counter is the number of
\* redraws handled, as u32, and the uniform buffer bound for the draw is a
\* 16-byte buffer holding the counter.  A handler that panicked leaves the
\* counter at that number (the increment overflowed) or one above it (no
\* frame could be acquired, and nothing was drawn).
C14_CounterIsRedraws ==
    /\ ~main_panic =>
          /\ uniforms.frame = CountAsU32(RedrawsHandled)
          /\ main_draw # NoDraw =>
                /\ main_uniform_buffer.size = 16
                /\ main_uniform_buffer.contents = <<uniforms>>
                /\ main_uniform_bind_group.buffer = main_uniform_buffer.id
                /\ main_draw.bind_group = main_uniform_bind_group.id
    /\ main_panic =>
          \/ uniforms.frame = CountAsU32(RedrawsHandled)
          \/ /\ uniforms.frame = CountAsU32(CountAdd(RedrawsHandled, 1))
             /\ main_uniform_buffer.contents = <<uniforms>>
             /\ main_draw.bind_group # main_uniform_bind_group.id

\* C14, the steps: a redraw that completes counts one and binds a new
\* buffer holding the new counter value for its draw; the increment at
\* u32::MAX overflows (it wraps to 0, or the handler panics and nothing is
\* counted); a redraw that cannot acquire a frame panics after the
\* increment and draws nothing; every other event leaves the counter and
\* the buffer alone
C14_CounterStep ==
    IF main_event' = "RedrawRequested"
        THEN \/ /\ main_panic'
                /\ uniforms.frame = [hi |-> U16 - 1, lo |-> U16 - 1]
                /\ uniforms' = uniforms
                /\ RedrawsHandled' = RedrawsHandled
                /\ main_draw' = main_draw
             \/ /\ main_panic'
                /\ uniforms'.frame = U32Inc(uniforms.frame).value
                /\ RedrawsHandled' = RedrawsHandled
                /\ main_uniform_buffer'.contents = <<uniforms'>>
                /\ main_draw' = main_draw
             \/ /\ ~main_panic'
                /\ RedrawsHandled' = CountAdd(RedrawsHandled, 1)
                /\ uniforms'.frame = U32Inc(uniforms.frame).value
                /\ main_uniform_buffer'.id # main_uniform_buffer.id
                /\ main_uniform_buffer'.contents = <<uniforms'>>
                /\ main_draw'.bind_group = main_uniform_bind_group'.id
                /\ main_uniform_bind_group'.buffer = main_uniform_buffer'.id
        ELSE /\ uniforms' = uniforms
             /\ RedrawsHandled' = RedrawsHandled
             /\ main_uniform_buffer' = main_uniform_buffer
             /\ main_uniform_bind_group' = main_uniform_bind_group

\* C14: uniforms.frame equals the number of RedrawRequested events handled
\* so far as a u32 (the increment at 2^32 - 1 overflows), other events leave
\* it unchanged, and the uniform buffer bound for each draw is a 16-byte
\* buffer holding the counter value of that redraw.
C14_FrameCountsRedraws == [][C14_CounterStep]_vars /\ []C14_CounterIsRedraws

\* C14's case: the counter has passed u32::MAX, wrapped, and counted one
\* more redraw after a key press
C14_Witness ==
    /\ main_created.redraws_before = LateFrame
    /\ main_created.frames = 3
    /\ RedrawsHandled = [hi |-> U16, lo |-> 1]
    /\ uniforms.frame = [hi |-> 0, lo |-> 1]
    /\ main_created.presses >= 1
    /\ main_event = "RedrawRequested"
    /\ ~main_panic
    /\ main_uniform_buffer.contents = <<uniforms>>

====
